---- MODULE Spec2Model ----
(***************************************************************************)
(* Ticket-Snipper-Backend: the event aggregation / reservation routes      *)
(* (src/routes/shows.ts in its three variants) and the Stripe checkout     *)
(* bridge (src/routes/payments.ts).                                        *)
(*                                                                         *)
(* The server keeps no state between requests, so a behaviour is a         *)
(* sequence of requests: from "idle" one handler runs to completion        *)
(* ("done", with the calls it made and the response it sent recorded),     *)
(* and NextRequest returns to "idle".                                      *)
(*                                                                         *)
(* Numbers.  An optional JS number (x?: number) is <<>> when undefined and *)
(* <<n>> otherwise.  Money is carried in half units (the value 51 stands   *)
(* for 25.5), so that Math.round has something to round.                   *)
(***************************************************************************)
EXTENDS Integers, Sequences, FiniteSets

VARIABLES
  env,       \* process.env: the configuration the handlers read
  pc,        \* "idle" | "done"
  op,        \* the handler that served the request
  req,       \* the inbound request
  upstream,  \* what the external collaborators answered during the request
  trace,     \* the outbound calls and log events of the request, in order
  events,    \* the raw catalog entries the handler retained
  res        \* the HTTP response

vars == <<env, pc, op, req, upstream, trace, events, res>>

(***************************************************************************)
(* Bounds of the model                                                     *)
(***************************************************************************)
MaxLen == 2          \* longest list one two-call upstream query returns
MaxQty == 3          \* largest requested quantity
maxPages == 3        \* shows.ts:384 (50 in the code), scaled down
perPage == 2         \* shows.ts:383 (100 in the code), scaled down

(***************************************************************************)
(* JavaScript values                                                       *)
(***************************************************************************)
Absent == <<>>
Num(n) == <<n>>

\* !!x for x: number | undefined
Truthy(o) == o # <<>> /\ o[1] # 0

\* a || b
Or(a, b) == IF Truthy(a) THEN a ELSE b

\* x > 0 for x: number | undefined (undefined > 0 is false)
Positive(o) == o # <<>> /\ o[1] > 0

\* Math.round on a half-unit amount, result in half units:
\* Math.round(x) = floor(x + 0.5)
MathRound(h) == 2 * ((h + 1) \div 2)

\* Number.prototype.toString(): the decimal digits of n
DigitChar == <<"0", "1", "2", "3", "4", "5", "6", "7", "8", "9">>

RECURSIVE Digits(_)
Digits(n) == IF n < 10 THEN <<DigitChar[n + 1]>>
             ELSE Append(Digits(n \div 10), DigitChar[(n % 10) + 1])

toString(n) == IF n < 0 THEN <<"-">> \o Digits(0 - n) ELSE Digits(n)

(***************************************************************************)
(* Catalog entries (SeatGeekEvent)                                         *)
(***************************************************************************)
EventIds == {7, 42}

ListingCounts == {Absent, Num(0), Num(-1), Num(2)}
LowestPrices  == {Absent, Num(0), Num(-10), Num(51)}
AveragePrices == {Absent, Num(60)}

NoStats == <<>>
Stats(lc, lp, ap) == << [listing_count |-> lc, lowest_price |-> lp, average_price |-> ap] >>

AllStats == {NoStats} \cup
            {Stats(lc, lp, ap) : lc \in ListingCounts, lp \in LowestPrices, ap \in AveragePrices}

\* the entries a single-entity lookup of id may return
EntriesOf(id) == {[id |-> id, stats |-> s] : s \in AllStats}

\* the entries the listing queries return in this model
ListStats == {Stats(Num(2), Num(51), Absent),
              Stats(Num(2), Absent, Num(60)),
              Stats(Num(0), Num(51), Absent)}
ListEntries == {[id |-> i, stats |-> s] : i \in EventIds, s \in ListStats}

\* event.stats?.f
listing_count(event) == IF event.stats = NoStats THEN Absent ELSE event.stats[1].listing_count
lowest_price(event)  == IF event.stats = NoStats THEN Absent ELSE event.stats[1].lowest_price
average_price(event) == IF event.stats = NoStats THEN Absent ELSE event.stats[1].average_price

(***************************************************************************)
(* Configuration (process.env); "" is an unset variable                    *)
(***************************************************************************)
Envs == [TICKET_API_KEY : {"", "k1"},
         SEATGEEK_CLIENT_ID : {"", "cid"},
         SEATGEEK_CLIENT_SECRET : {"", "csec"},
         STRIPE_SECRET_KEY : {"", "sk"},
         STRIPE_WEBHOOK_SECRET : {"", "whsec"}]

\* the x-api-key header a caller sends ("" is no header)
CallerKeys == {"", "k1", "k2"}

(***************************************************************************)
(* Outbound calls and log events, as recorded in trace                     *)
(***************************************************************************)
CatalogCall(what) == [to |-> "catalog", what |-> what]
BridgeCall(body)  == [to |-> "bridge", body |-> body]
StripeCall(api)   == [to |-> "stripe", api |-> api]
Log(level, msg)   == [to |-> "log", level |-> level, message |-> msg]

Asked(calls, to) == \E i \in 1..Len(calls) : calls[i].to = to
AskedCatalog(calls, what) ==
  \E i \in 1..Len(calls) : calls[i].to = "catalog" /\ calls[i].what = what

(***************************************************************************)
(* Responses                                                               *)
(***************************************************************************)
ErrorResponse(status, error) == [status |-> status, success |-> FALSE, error |-> error]

\* a handler's result: the response, the calls made, the entries retained
Result(r, calls, evs) == [res |-> r, trace |-> calls, events |-> evs]

\* verifyApiKey with the header test written (apiKey && apiKey !== expected):
\* a request without the header passes
verifyApiKey_missingHeaderPasses(e, apiKey) ==
  IF e.TICKET_API_KEY = "" THEN <<ErrorResponse(500, "Configuration Error")>>
  ELSE IF apiKey # "" /\ apiKey # e.TICKET_API_KEY THEN <<ErrorResponse(401, "Unauthorized")>>
  ELSE <<>>

(***************************************************************************)
(* verifyApiKey: <<>> when next() is called, else the response sent        *)
(***************************************************************************)
verifyApiKey(e, apiKey) ==
  IF e.TICKET_API_KEY = "" THEN <<ErrorResponse(500, "Configuration Error")>>
  ELSE IF apiKey = "" \/ apiKey # e.TICKET_API_KEY THEN <<ErrorResponse(401, "Unauthorized")>>
  ELSE <<>>

\* the credential check that opens every handler of the first variant and of
\* part_000 (CLIENT_ID only)
MissingClientId(e) == e.SEATGEEK_CLIENT_ID = ""

\* the credential check of the second variant (CLIENT_ID and CLIENT_SECRET)
MissingCredentials(e) == e.SEATGEEK_CLIENT_ID = "" \/ e.SEATGEEK_CLIENT_SECRET = ""

(***************************************************************************)
(* Listing queries.  A response is [kind, events]: kind "ok" carries the   *)
(* events, "error" and "timeout" make axios throw, "none" is a query that  *)
(* was never sent.                                                         *)
(***************************************************************************)
RECURSIVE SeqsUpTo(_, _)
SeqsUpTo(S, n) == IF n = 0 THEN {<<>>}
                  ELSE LET shorter == SeqsUpTo(S, n - 1)
                       IN shorter \cup {Append(q, x) : q \in {t \in shorter : Len(t) = n - 1}, x \in S}

Failures == {[kind |-> "error", events |-> <<>>], [kind |-> "timeout", events |-> <<>>]}
NoCall == [kind |-> "none", events |-> <<>>]
ListResponses == {[kind |-> "ok", events |-> l] : l \in SeqsUpTo(ListEntries, MaxLen)} \cup Failures

\* API CALL 1 (try/catch: a failure is logged and yields [])
fetchEventsByCity(response) ==
  IF response.kind = "ok"
  THEN [events |-> response.events, trace |-> <<CatalogCall("city")>>]
  ELSE [events |-> <<>>, trace |-> <<CatalogCall("city"), Log("error", "API CALL 1 failed")>>]

\* API CALL 2 (try/catch: a failure is logged and yields [])
fetchGeneralEvents(response) ==
  IF response.kind = "ok"
  THEN [events |-> response.events, trace |-> <<CatalogCall("general")>>]
  ELSE [events |-> <<>>, trace |-> <<CatalogCall("general"), Log("error", "API CALL 2 failed")>>]

\* hasValidPricing with hasSeats written (listing_count !== undefined &&
\* listing_count >= 0): a listing count of 0 passes
hasValidPricing_zeroCountPasses(event) ==
  IF event.stats = NoStats THEN FALSE
  ELSE LET hasPrice == (Truthy(lowest_price(event)) /\ Positive(lowest_price(event)))
                       \/ (Truthy(average_price(event)) /\ Positive(average_price(event)))
           hasSeats == listing_count(event) # Absent /\ listing_count(event)[1] >= 0
       IN hasPrice /\ hasSeats

\* hasValidPricing (part_000)
hasValidPricing(event) ==
  IF event.stats = NoStats THEN FALSE
  ELSE LET hasPrice == (Truthy(lowest_price(event)) /\ Positive(lowest_price(event)))
                       \/ (Truthy(average_price(event)) /\ Positive(average_price(event)))
           hasSeats == Truthy(listing_count(event)) /\ Positive(listing_count(event))
       IN hasPrice /\ hasSeats

\* the for-loop of fetchAllEvents without uniqueEventIds.add(event.id)
RECURSIVE pushUnique_forgetsId(_, _)
pushUnique_forgetsId(s, list) ==
  IF list = <<>> THEN s
  ELSE LET event == Head(list)
       IN IF event.id \notin s.uniqueEventIds
          THEN pushUnique_forgetsId([allEvents |-> Append(s.allEvents, event),
                                     uniqueEventIds |-> s.uniqueEventIds], Tail(list))
          ELSE pushUnique_forgetsId(s, Tail(list))

\* the for-loop of fetchAllEvents (first variant): s is [allEvents, uniqueEventIds]
RECURSIVE pushUnique(_, _)
pushUnique(s, list) ==
  IF list = <<>> THEN s
  ELSE LET event == Head(list)
       IN IF event.id \notin s.uniqueEventIds
          THEN pushUnique([allEvents |-> Append(s.allEvents, event),
                           uniqueEventIds |-> s.uniqueEventIds \cup {event.id}], Tail(list))
          ELSE pushUnique(s, Tail(list))

\* the for-loop of fetchAllEvents (part_000) with the id added to
\* uniqueEventIds before the entry is tested with hasValidPricing
RECURSIVE pushUniqueValid_addsRejected(_, _)
pushUniqueValid_addsRejected(s, list) ==
  IF list = <<>> THEN s
  ELSE LET event == Head(list)
       IN IF event.id \notin s.uniqueEventIds
          THEN pushUniqueValid_addsRejected(
                 [allEvents |-> IF hasValidPricing(event) THEN Append(s.allEvents, event)
                                ELSE s.allEvents,
                  uniqueEventIds |-> s.uniqueEventIds \cup {event.id}], Tail(list))
          ELSE pushUniqueValid_addsRejected(s, Tail(list))

\* the for-loop of fetchAllEvents (part_000)
RECURSIVE pushUniqueValid(_, _)
pushUniqueValid(s, list) ==
  IF list = <<>> THEN s
  ELSE LET event == Head(list)
       IN IF event.id \notin s.uniqueEventIds /\ hasValidPricing(event)
          THEN pushUniqueValid([allEvents |-> Append(s.allEvents, event),
                                uniqueEventIds |-> s.uniqueEventIds \cup {event.id}], Tail(list))
          ELSE pushUniqueValid(s, Tail(list))

NoFetch == [events |-> <<>>, trace |-> <<>>]
EmptyMerge == [allEvents |-> <<>>, uniqueEventIds |-> {}]

\* fetchAllEvents whose general query is not caught apart: its failure
\* discards what the city-scoped query returned
fetchAllEvents_generalAborts(location, city, general) ==
  LET c == IF location # "" THEN fetchEventsByCity(city) ELSE NoFetch
      s1 == pushUnique(EmptyMerge, c.events)
      g == fetchGeneralEvents(general)
      s2 == pushUnique(s1, g.events)
  IN [events |-> IF general.kind = "ok" THEN s2.allEvents ELSE <<>>,
      trace |-> c.trace \o g.trace]

\* fetchAllEvents, first variant of shows.ts
fetchAllEvents(location, city, general) ==
  LET c == IF location # "" THEN fetchEventsByCity(city) ELSE NoFetch
      s1 == pushUnique(EmptyMerge, c.events)
      g == fetchGeneralEvents(general)
      s2 == pushUnique(s1, g.events)
  IN [events |-> s2.allEvents, trace |-> c.trace \o g.trace]

\* fetchAllEvents with the two queries sent together (Promise.all) and merged
\* as they arrive, the general one arriving first
fetchAllEventsGated_generalFirst(location, city, general) ==
  LET c == IF location # "" THEN fetchEventsByCity(city) ELSE NoFetch
      g == fetchGeneralEvents(general)
      s1 == pushUniqueValid(EmptyMerge, g.events)
      s2 == pushUniqueValid(s1, c.events)
  IN [events |-> s2.allEvents, trace |-> g.trace \o c.trace]

\* fetchAllEvents, part_000
fetchAllEventsGated(location, city, general) ==
  LET c == IF location # "" THEN fetchEventsByCity(city) ELSE NoFetch
      s1 == pushUniqueValid(EmptyMerge, c.events)
      g == fetchGeneralEvents(general)
      s2 == pushUniqueValid(s1, g.events)
  IN [events |-> s2.allEvents, trace |-> c.trace \o g.trace]

(***************************************************************************)
(* Normalisation: the event -> Show mappings                               *)
(***************************************************************************)
\* first variant: list (159-182) and get-one (214-234)
normalizeV1(event) ==
  LET listingCount == listing_count(event)
      lowestPrice == lowest_price(event)
      averagePrice == average_price(event)
  IN [id |-> toString(event.id),
      availableSeats |-> Or(listingCount, Num(0))[1],
      price |-> MathRound(Or(Or(lowestPrice, averagePrice), Num(0))[1]),
      isAvailable |-> TRUE]

\* the second variant's mapping with isAvailable taken from the listing count
\* alone
normalizeV2_seatsOnly(event) ==
  LET price == Or(Or(lowest_price(event), average_price(event)), Num(0))[1]
  IN [id |-> toString(event.id),
      availableSeats |-> Or(listing_count(event), Num(0))[1],
      price |-> price,
      isAvailable |-> Or(listing_count(event), Num(0))[1] > 0]

\* second variant: list (447-465) and get-one (486-504)
normalizeV2(event) ==
  LET price == Or(Or(lowest_price(event), average_price(event)), Num(0))[1]
  IN [id |-> toString(event.id),
      availableSeats |-> Or(listing_count(event), Num(0))[1],
      price |-> price,
      isAvailable |-> Or(listing_count(event), Num(0))[1] > 0 /\ price > 0]

\* part_000: list (172-194) and get-one (238-257), applied after hasValidPricing
normalizeGated(event) ==
  LET lowestPrice == Or(lowest_price(event), average_price(event))
      listingCount == listing_count(event)
  IN [id |-> toString(event.id),
      availableSeats |-> listingCount[1],
      price |-> MathRound(lowestPrice[1]),
      isAvailable |-> TRUE]

MapV1(evs) == [i \in 1..Len(evs) |-> normalizeV1(evs[i])]
MapV2(evs) == [i \in 1..Len(evs) |-> normalizeV2(evs[i])]
MapGated(evs) == [i \in 1..Len(evs) |-> normalizeGated(evs[i])]

ListResponse(shows) == [status |-> 200, success |-> TRUE, error |-> "",
                        shows |-> shows, total |-> Len(shows)]

(***************************************************************************)
(* GET / (list)                                                            *)
(***************************************************************************)
\* the location query parameter ('New York' when absent, '' for ?location=)
Locations == {"", "New York"}

\* first variant, shows.ts 139-194; fetch_all is (req.query.fetch_all === 'true')
listV1(e, apiKey, location, fetch_all, city, general) ==
  LET v == verifyApiKey(e, apiKey)
  IN IF v # <<>> THEN Result(v[1], <<>>, <<>>)
     ELSE IF MissingClientId(e)
     THEN Result(ErrorResponse(500, "Configuration Error"), <<>>, <<>>)
     ELSE LET f == IF fetch_all THEN fetchAllEvents(location, city, general)
                   ELSE fetchEventsByCity(city)
          IN Result(ListResponse(MapV1(f.events)), f.trace, f.events)

\* part_000 150-208
listGated(e, apiKey, location, fetch_all, city, general) ==
  LET v == verifyApiKey(e, apiKey)
  IN IF v # <<>> THEN Result(v[1], <<>>, <<>>)
     ELSE IF MissingClientId(e)
     THEN Result(ErrorResponse(500, "Configuration Error"), <<>>, <<>>)
     ELSE LET f == IF fetch_all THEN fetchAllEventsGated(location, city, general)
                   ELSE LET c == fetchEventsByCity(city)
                        IN [events |-> SelectSeq(c.events, hasValidPricing), trace |-> c.trace]
          IN Result(ListResponse(MapGated(f.events)), f.trace, f.events)

\* fetchAllEvents, second variant of shows.ts (380-418): the while loop from
\* page on; pages are the answers to the page requests, in the order sent
RECURSIVE fetchAllEventsPaged(_, _, _, _)
fetchAllEventsPaged(pages, page, allEvents, calls) ==
  IF page > maxPages THEN [events |-> allEvents, trace |-> calls]
  ELSE LET response == IF page <= Len(pages) THEN pages[page] ELSE NoCall
           asked == Append(calls, [to |-> "catalog", what |-> "page", page |-> page])
       IN IF response.kind # "ok"
          THEN [events |-> allEvents,
                trace |-> Append(asked, Log("error", "Error fetching SeatGeek events"))]
          ELSE IF Len(response.events) < perPage
          THEN [events |-> allEvents \o response.events, trace |-> asked]
          ELSE fetchAllEventsPaged(pages, page + 1, allEvents \o response.events, asked)

\* second variant, shows.ts 420-472; single is the answer to the one query of
\* fetch_all !== 'true', whose failure reaches the catch block
listV2(e, apiKey, fetch_all, pages, single) ==
  LET v == verifyApiKey(e, apiKey)
  IN IF v # <<>> THEN Result(v[1], <<>>, <<>>)
     ELSE IF MissingCredentials(e)
     THEN Result(ErrorResponse(500, "Configuration Error"), <<>>, <<>>)
     ELSE IF fetch_all
     THEN LET f == fetchAllEventsPaged(pages, 1, <<>>, <<>>)
          IN Result(ListResponse(MapV2(f.events)), f.trace, f.events)
     ELSE IF single.kind # "ok"
     THEN Result(ErrorResponse(500, "Failed to fetch shows"),
                 <<CatalogCall("list"), Log("error", "Failed to fetch shows")>>, <<>>)
     ELSE Result(ListResponse(MapV2(single.events)), <<CatalogCall("list")>>, single.events)

(***************************************************************************)
(* payments.ts                                                             *)
(*                                                                         *)
(* A request body is a record; a field the handler tests only for          *)
(* truthiness is carried by its falsy value when the body lacks it         *)
(* (shows <<>>, userId "", totalAmount 0).                                 *)
(***************************************************************************)
\* what stripe.checkout.sessions.create / retrieve answers: a session (its
\* url may be null, "") or a thrown error
StripeSession(url) == [kind |-> "session", url |-> url, id |-> "cs_test_1"]
StripeError == [kind |-> "error", url |-> "", id |-> ""]
NoStripe == [kind |-> "none", url |-> "", id |-> ""]

\* the client is built with (STRIPE_SECRET_KEY || ''), and the handlers call it
\* whatever the key: without a key no call of it succeeds
StripeAnswers(e) == IF e.STRIPE_SECRET_KEY = "" THEN {StripeError}
                    ELSE {StripeSession("https://checkout.stripe.test/cs_test_1"),
                          StripeSession(""), StripeError}

CheckoutResponse(session) ==
  [status |-> 200, success |-> TRUE, error |-> "",
   checkoutUrl |-> session.url, sessionId |-> session.id]

\* POST /stripe/create-checkout-session, payments.ts 10-41
createCheckoutSession(e, body, stripe) ==
  IF body.shows = <<>> \/ body.userId = "" \/ body.totalAmount = 0
  THEN [res |-> ErrorResponse(400, "Missing fields"), trace |-> <<>>]
  ELSE LET lineItems == [i \in 1..Len(body.shows) |->
                           \* Math.round(show.price * 100): a half-unit price is a
                           \* whole number of cents
                           [unit_amount |-> 50 * body.shows[i].price,
                            quantity |-> body.shows[i].quantity]]
           call == [to |-> "stripe", api |-> "checkout.sessions.create",
                    line_items |-> lineItems]
       IN IF stripe.kind = "session"
          THEN [res |-> CheckoutResponse(stripe),
                trace |-> <<call, Log("payment", "Checkout session created")>>]
          ELSE [res |-> ErrorResponse(500, "Checkout failed"),
                trace |-> <<call, Log("error", "Checkout session creation failed")>>]

\* GET /stripe/session/:id, payments.ts 43-52
retrieveSession(e, stripe) ==
  LET call == StripeCall("checkout.sessions.retrieve")
  IN IF stripe.kind = "session"
     THEN [res |-> [status |-> 200, success |-> TRUE, error |-> "", sessionId |-> stripe.id],
           trace |-> <<call, Log("payment", "Session retrieved")>>]
     ELSE [res |-> ErrorResponse(500, "Session retrieval failed"),
           trace |-> <<call, Log("error", "Failed to retrieve session")>>]

EventTypes == {"checkout.session.completed", "checkout.session.expired", "payment_intent.created"}

\* the webhook handler reading event.type from the parsed body before
\* constructEvent has verified the signature
stripeWebhook_dispatchesFirst(e, sigValid, type) ==
  IF e.STRIPE_WEBHOOK_SECRET = ""
  THEN [res |-> ErrorResponse(500, "Webhook secret missing"),
        trace |-> <<Log("error", "Webhook secret not configured")>>]
  ELSE LET verify == StripeCall("webhooks.constructEvent")
           dispatch == IF type = "checkout.session.completed"
                       THEN <<Log("payment", "Payment completed")>>
                       ELSE IF type = "checkout.session.expired"
                       THEN <<Log("payment", "Payment expired")>>
                       ELSE <<>>
       IN IF ~sigValid
          THEN [res |-> ErrorResponse(400, "Webhook error"),
                trace |-> dispatch \o <<verify, Log("error", "Webhook error")>>]
          ELSE [res |-> [status |-> 200, success |-> TRUE, error |-> "", received |-> TRUE],
                trace |-> dispatch \o <<verify>>]

\* POST /stripe/webhook, payments.ts 54-77; sigValid is whether
\* stripe.webhooks.constructEvent accepts the signature, type the event's type
stripeWebhook(e, sigValid, type) ==
  IF e.STRIPE_WEBHOOK_SECRET = ""
  THEN [res |-> ErrorResponse(500, "Webhook secret missing"),
        trace |-> <<Log("error", "Webhook secret not configured")>>]
  ELSE LET verify == StripeCall("webhooks.constructEvent")
       IN IF ~sigValid
          THEN [res |-> ErrorResponse(400, "Webhook error"),
                trace |-> <<verify, Log("error", "Webhook error")>>]
          ELSE [res |-> [status |-> 200, success |-> TRUE, error |-> "", received |-> TRUE],
                trace |-> <<verify>> \o
                  (IF type = "checkout.session.completed"
                   THEN <<Log("payment", "Payment completed")>>
                   ELSE IF type = "checkout.session.expired"
                   THEN <<Log("payment", "Payment expired")>>
                   ELSE <<>>)]

(***************************************************************************)
(* The Checkout Bridge as reserve reaches it: an HTTP POST to              *)
(* <protocol>://<Host header>/api/payments/stripe/create-checkout-session. *)
(* It is answered by the handler of payments.ts where that router serves   *)
(* the URL, and by whatever else serves the URL otherwise.  A reply of     *)
(* status 0 is no reply (timeout, connection refused).                     *)
(***************************************************************************)
Reply(status, success, url) ==
  [status |-> status, success |-> success, error |-> "",
   checkoutUrl |-> url, sessionId |-> IF url = "" THEN "" ELSE "cs_test_1"]
NoReply == Reply(-1, FALSE, "")

OtherReplies == {Reply(200, TRUE, "https://checkout.stripe.test/cs_test_1"),
                 Reply(200, TRUE, ""),
                 Reply(200, FALSE, ""),
                 Reply(404, FALSE, ""),
                 Reply(500, FALSE, ""),
                 Reply(0, FALSE, "")}

BridgeAnswers(e) ==
  {[servedBy |-> "payments.ts", stripe |-> s, reply |-> NoReply] : s \in StripeAnswers(e)}
  \cup {[servedBy |-> "elsewhere", stripe |-> NoStripe, reply |-> r] : r \in OtherReplies}
NoBridge == [servedBy |-> "none", stripe |-> NoStripe, reply |-> NoReply]

\* axios.post to the bridge: the reply, and the calls the serving handler made
postCheckout(e, body, bridge) ==
  IF bridge.servedBy = "payments.ts"
  THEN LET h == createCheckoutSession(e, body, bridge.stripe)
       IN [reply |-> h.res, trace |-> h.trace]
  ELSE [reply |-> bridge.reply, trace |-> <<>>]

(***************************************************************************)
(* Single-entity lookup, GET /events/{id}: status 200 with the event, an   *)
(* HTTP error status, or 0 for no response (timeout)                       *)
(***************************************************************************)
LookupAnswers(id) == {[status |-> 200, event |-> <<ev>>] : ev \in EntriesOf(id)}
                     \cup {[status |-> st, event |-> <<>>] : st \in {404, 500, 0}}
NoLookup == [status |-> -1, event |-> <<>>]

(***************************************************************************)
(* Synthesized identities.  Math.random() is carried by the base-36 digits *)
(* of its fraction; toString(36).substr(2, 9) keeps the first nine.        *)
(***************************************************************************)
Clock == {1}
RandomDraws == {<<"i">>,
                <<"4", "f", "z", "y", "o", "8", "2", "m", "v", "y", "r">>}

substr9(digits) == SubSeq(digits, 1, IF Len(digits) < 9 THEN Len(digits) ELSE 9)

seatIdOf(id, now, random) == <<"SEAT", id, now, substr9(random)>>
reservationIdOf(now, random) == <<"RES", now, substr9(random)>>

(***************************************************************************)
(* GET /:id (get-one)                                                      *)
(***************************************************************************)
ShowResponse(show) == [status |-> 200, success |-> TRUE, error |-> "", show |-> show]

\* the catch block of the get-one handlers
getOneCatch(status) ==
  IF status = 404 THEN ErrorResponse(404, "Show not found")
  ELSE ErrorResponse(500, "Failed to fetch show")

\* first variant, shows.ts 196-244
getOneV1(e, apiKey, id, lookup) ==
  LET v == verifyApiKey(e, apiKey)
  IN IF v # <<>> THEN Result(v[1], <<>>, <<>>)
     ELSE IF MissingClientId(e)
     THEN Result(ErrorResponse(500, "Configuration Error"), <<>>, <<>>)
     ELSE IF lookup.status # 200
     THEN Result(getOneCatch(lookup.status), <<CatalogCall("event")>>, <<>>)
     ELSE Result(ShowResponse(normalizeV1(lookup.event[1])), <<CatalogCall("event")>>, lookup.event)

\* second variant, shows.ts 474-514
getOneV2(e, apiKey, id, lookup) ==
  LET v == verifyApiKey(e, apiKey)
  IN IF v # <<>> THEN Result(v[1], <<>>, <<>>)
     ELSE IF MissingCredentials(e)
     THEN Result(ErrorResponse(500, "Configuration Error"), <<>>, <<>>)
     ELSE IF lookup.status # 200
     THEN Result(getOneCatch(lookup.status), <<CatalogCall("event")>>, <<>>)
     ELSE Result(ShowResponse(normalizeV2(lookup.event[1])), <<CatalogCall("event")>>, lookup.event)

\* part_000 210-267
getOneGated(e, apiKey, id, lookup) ==
  LET v == verifyApiKey(e, apiKey)
  IN IF v # <<>> THEN Result(v[1], <<>>, <<>>)
     ELSE IF MissingClientId(e)
     THEN Result(ErrorResponse(500, "Configuration Error"), <<>>, <<>>)
     ELSE IF lookup.status # 200
     THEN Result(getOneCatch(lookup.status), <<CatalogCall("event")>>, <<>>)
     ELSE IF ~hasValidPricing(lookup.event[1])
     THEN Result(ErrorResponse(404, "No pricing available"), <<CatalogCall("event")>>, <<>>)
     ELSE Result(ShowResponse(normalizeGated(lookup.event[1])), <<CatalogCall("event")>>, lookup.event)

(***************************************************************************)
(* POST /:id/reserve                                                       *)
(***************************************************************************)
\* const { quantity = 1 } = req.body
defaultQuantity(q) == IF q = Absent THEN 1 ELSE q[1]

\* the catch block of the reserve handlers; status is error.response?.status of
\* an axios error, 0 for an error without a response or not of axios
reserveCatch(status, calls) ==
  IF status = 404 THEN Result(ErrorResponse(404, "Event not found"), calls, <<>>)
  ELSE Result(ErrorResponse(500, "Reservation failed"),
              Append(calls, Log("error", "Reservation failed")), <<>>)

ReserveResponse(id, quantity, estimatedPrice, reply, seatId, reservationId) ==
  [status |-> 200, success |-> TRUE, error |-> "",
   reservationId |-> reservationId, eventId |-> id, quantity |-> quantity,
   estimatedPrice |-> estimatedPrice, checkoutUrl |-> reply.checkoutUrl,
   sessionId |-> reply.sessionId, seatId |-> seatId]

\* the request reserve sends to the bridge: { eventId, seatId, quantity,
\* eventTitle, price } (no shows, userId or totalAmount)
ReserveBody(id, seatId, quantity, price) ==
  [shows |-> <<>>, userId |-> "", totalAmount |-> 0,
   eventId |-> id, seatId |-> seatId, quantity |-> quantity, price |-> price]

\* the checkout step without the (!checkoutData.success || !checkoutData.checkoutUrl)
\* test: a reply of status 200 is answered as a success whatever it holds
checkout_ignoresReply(e, id, event, quantity, price, estimatedPrice, bridge, ids, calls) ==
  LET seatId == seatIdOf(id, ids.now, ids.seat)
      body == ReserveBody(id, seatId, quantity, price)
      x == postCheckout(e, body, bridge)
      made == calls \o <<BridgeCall(body)>> \o x.trace
  IN IF x.reply.status # 200 THEN reserveCatch(x.reply.status, made)
     ELSE Result(ReserveResponse(id, quantity, estimatedPrice, x.reply, seatId,
                                 reservationIdOf(ids.now, ids.reservation)),
                 made, <<event>>)

\* from the seatId to the success response: the same statements in the three
\* reserve handlers (axios throws on a status outside 2xx and on no response)
checkout(e, id, event, quantity, price, estimatedPrice, bridge, ids, calls) ==
  LET seatId == seatIdOf(id, ids.now, ids.seat)
      body == ReserveBody(id, seatId, quantity, price)
      x == postCheckout(e, body, bridge)
      made == calls \o <<BridgeCall(body)>> \o x.trace
  IN IF x.reply.status # 200 THEN reserveCatch(x.reply.status, made)
     ELSE IF ~x.reply.success \/ x.reply.checkoutUrl = "" THEN reserveCatch(0, made)
     ELSE Result(ReserveResponse(id, quantity, estimatedPrice, x.reply, seatId,
                                 reservationIdOf(ids.now, ids.reservation)),
                 made, <<event>>)

\* first variant, shows.ts 246-319 (50 is 100 half units)
reserveV1(e, apiKey, id, quantity, lookup, bridge, ids) ==
  LET v == verifyApiKey(e, apiKey)
  IN IF v # <<>> THEN Result(v[1], <<>>, <<>>)
     ELSE IF MissingClientId(e)
     THEN Result(ErrorResponse(500, "Configuration Error"), <<>>, <<>>)
     ELSE IF lookup.status # 200
     THEN reserveCatch(lookup.status, <<CatalogCall("event")>>)
     ELSE LET event == lookup.event[1]
              lowestPrice == Or(Or(lowest_price(event), average_price(event)), Num(0))[1]
              price == Or(Num(MathRound(lowestPrice)), Num(100))[1]
              estimatedPrice == Or(Num(MathRound(lowestPrice * quantity)), Num(100 * quantity))[1]
          IN checkout(e, id, event, quantity, price, estimatedPrice, bridge, ids,
                      <<CatalogCall("event")>>)

\* the second variant's reserve without the (listingCount < quantity) test
reserveV2_noQuantityTest(e, apiKey, id, quantity, lookup, bridge, ids) ==
  LET v == verifyApiKey(e, apiKey)
  IN IF v # <<>> THEN Result(v[1], <<>>, <<>>)
     ELSE IF MissingCredentials(e)
     THEN Result(ErrorResponse(500, "Configuration Error"), <<>>, <<>>)
     ELSE IF lookup.status # 200
     THEN reserveCatch(lookup.status, <<CatalogCall("event")>>)
     ELSE LET event == lookup.event[1]
              listingCount == Or(listing_count(event), Num(0))[1]
              price == Or(Or(lowest_price(event), average_price(event)), Num(0))[1]
          IN IF listingCount = 0
             THEN Result(ErrorResponse(400, "No tickets available"), <<CatalogCall("event")>>, <<>>)
             ELSE IF price <= 0
             THEN Result(ErrorResponse(400, "Invalid price"), <<CatalogCall("event")>>, <<>>)
             ELSE checkout(e, id, event, quantity, price, price * quantity, bridge, ids,
                           <<CatalogCall("event")>>)

\* second variant, shows.ts 516-567
reserveV2(e, apiKey, id, quantity, lookup, bridge, ids) ==
  LET v == verifyApiKey(e, apiKey)
  IN IF v # <<>> THEN Result(v[1], <<>>, <<>>)
     ELSE IF MissingCredentials(e)
     THEN Result(ErrorResponse(500, "Configuration Error"), <<>>, <<>>)
     ELSE IF lookup.status # 200
     THEN reserveCatch(lookup.status, <<CatalogCall("event")>>)
     ELSE LET event == lookup.event[1]
              listingCount == Or(listing_count(event), Num(0))[1]
              price == Or(Or(lowest_price(event), average_price(event)), Num(0))[1]
          IN IF listingCount = 0
             THEN Result(ErrorResponse(400, "No tickets available"), <<CatalogCall("event")>>, <<>>)
             ELSE IF listingCount < quantity
             THEN Result(ErrorResponse(400, "Insufficient tickets"), <<CatalogCall("event")>>, <<>>)
             ELSE IF price <= 0
             THEN Result(ErrorResponse(400, "Invalid price"), <<CatalogCall("event")>>, <<>>)
             ELSE checkout(e, id, event, quantity, price, price * quantity, bridge, ids,
                           <<CatalogCall("event")>>)

\* part_000 269-358
reserveGated(e, apiKey, id, quantity, lookup, bridge, ids) ==
  LET v == verifyApiKey(e, apiKey)
  IN IF v # <<>> THEN Result(v[1], <<>>, <<>>)
     ELSE IF MissingClientId(e)
     THEN Result(ErrorResponse(500, "Configuration Error"), <<>>, <<>>)
     ELSE IF lookup.status # 200
     THEN reserveCatch(lookup.status, <<CatalogCall("event")>>)
     ELSE LET event == lookup.event[1]
          IN IF ~hasValidPricing(event)
             THEN Result(ErrorResponse(400, "No pricing available"), <<CatalogCall("event")>>, <<>>)
             ELSE LET listingCount == listing_count(event)[1]
                      lowestPrice == Or(lowest_price(event), average_price(event))[1]
                  IN IF listingCount < quantity
                     THEN Result(ErrorResponse(400, "Insufficient tickets"),
                                 <<CatalogCall("event")>>, <<>>)
                     ELSE checkout(e, id, event, quantity, MathRound(lowestPrice),
                                   MathRound(lowestPrice * quantity), bridge, ids,
                                   <<CatalogCall("event")>>)

(***************************************************************************)
(* The state machine                                                       *)
(***************************************************************************)
NoRequest == [apiKey |-> ""]
NoAnswers == [none |-> TRUE]
NoResponse == [status |-> 0, success |-> FALSE, error |-> ""]

Init ==
  /\ env \in Envs
  /\ pc = "idle"
  /\ op = "none"
  /\ req = NoRequest
  /\ upstream = NoAnswers
  /\ trace = <<>>
  /\ events = <<>>
  /\ res = NoResponse

\* handler o served request with the collaborators' answers: r is its result
Serve(o, request, answers, r) ==
  /\ pc' = "done"
  /\ op' = o
  /\ req' = request
  /\ upstream' = answers
  /\ trace' = r.trace
  /\ events' = r.events
  /\ res' = r.res
  /\ UNCHANGED env

\* the response is sent and nothing of the request is kept
NextRequest ==
  /\ pc = "done"
  /\ pc' = "idle"
  /\ op' = "none"
  /\ req' = NoRequest
  /\ upstream' = NoAnswers
  /\ trace' = <<>>
  /\ events' = <<>>
  /\ res' = NoResponse
  /\ UNCHANGED env

\* what a listing query answers: a response when the handler sends it
Answer(probe, what) == IF AskedCatalog(probe, what) THEN ListResponses ELSE {NoCall}

ListV1 ==
  /\ pc = "idle"
  /\ \E apiKey \in CallerKeys, location \in Locations, fetch_all \in BOOLEAN :
       LET probe == listV1(env, apiKey, location, fetch_all, NoCall, NoCall).trace
       IN \E city \in Answer(probe, "city"), general \in Answer(probe, "general") :
            Serve("listV1",
                  [apiKey |-> apiKey, location |-> location, fetch_all |-> fetch_all],
                  [city |-> city, general |-> general],
                  listV1(env, apiKey, location, fetch_all, city, general))

ListGated ==
  /\ pc = "idle"
  /\ \E apiKey \in CallerKeys, location \in Locations, fetch_all \in BOOLEAN :
       LET probe == listGated(env, apiKey, location, fetch_all, NoCall, NoCall).trace
       IN \E city \in Answer(probe, "city"), general \in Answer(probe, "general") :
            Serve("listGated",
                  [apiKey |-> apiKey, location |-> location, fetch_all |-> fetch_all],
                  [city |-> city, general |-> general],
                  listGated(env, apiKey, location, fetch_all, city, general))

\* the entries the paginated query returns in this model
PagedEntries == {[id |-> 7, stats |-> Stats(Num(2), Num(51), Absent)],
                 [id |-> 42, stats |-> Stats(Num(0), Absent, Absent)]}
PageResponses == {[kind |-> "ok", events |-> l] : l \in SeqsUpTo(PagedEntries, perPage)}
                 \cup Failures
FullPages == {r \in PageResponses : r.kind = "ok" /\ Len(r.events) = perPage}

\* the answers to a run of at most n page requests: every page but the last
\* is a full one (the loop asks for no page after a short or a failed one)
RECURSIVE PageRuns(_)
PageRuns(n) == IF n = 0 THEN {<<>>}
               ELSE {<<r>> : r \in PageResponses \ FullPages}
                    \cup {<<r>> \o rest : r \in FullPages, rest \in PageRuns(n - 1)}

ListV2 ==
  /\ pc = "idle"
  /\ \E apiKey \in CallerKeys, fetch_all \in BOOLEAN :
       LET probe == listV2(env, apiKey, fetch_all, <<>>, NoCall).trace
       IN \E pages \in (IF AskedCatalog(probe, "page") THEN PageRuns(maxPages) ELSE {<<>>}),
             single \in Answer(probe, "list") :
            Serve("listV2", [apiKey |-> apiKey, fetch_all |-> fetch_all],
                  [pages |-> pages, single |-> single],
                  listV2(env, apiKey, fetch_all, pages, single))

\* what the single-entity lookup answers: a response when the handler sends it
LookupAnswer(probe, id) == IF Asked(probe, "catalog") THEN LookupAnswers(id) ELSE {NoLookup}

GetOneV1 ==
  /\ pc = "idle"
  /\ \E apiKey \in CallerKeys, id \in EventIds :
       \E lookup \in LookupAnswer(getOneV1(env, apiKey, id, NoLookup).trace, id) :
         Serve("getOneV1", [apiKey |-> apiKey, id |-> id], [lookup |-> lookup],
               getOneV1(env, apiKey, id, lookup))

GetOneV2 ==
  /\ pc = "idle"
  /\ \E apiKey \in CallerKeys, id \in EventIds :
       \E lookup \in LookupAnswer(getOneV2(env, apiKey, id, NoLookup).trace, id) :
         Serve("getOneV2", [apiKey |-> apiKey, id |-> id], [lookup |-> lookup],
               getOneV2(env, apiKey, id, lookup))

GetOneGated ==
  /\ pc = "idle"
  /\ \E apiKey \in CallerKeys, id \in EventIds :
       \E lookup \in LookupAnswer(getOneGated(env, apiKey, id, NoLookup).trace, id) :
         Serve("getOneGated", [apiKey |-> apiKey, id |-> id], [lookup |-> lookup],
               getOneGated(env, apiKey, id, lookup))

\* req.body.quantity: absent, or a number
QuantityInputs == {Absent} \cup {Num(n) : n \in (-1)..MaxQty}

NoDraw == <<>>
NoIds == [now |-> 0, seat |-> NoDraw, reservation |-> NoDraw]

\* the bridge answers when reserve posts to it; Math.random() is drawn for the
\* seatId before the post and for the reservationId once the checkout succeeded
BridgeAnswer(e, probe) == IF Asked(probe, "bridge") THEN BridgeAnswers(e) ELSE {NoBridge}
SeatDraw(probe) == IF Asked(probe, "bridge") THEN RandomDraws ELSE {NoDraw}
ReservationDraw(response) == IF response.success THEN RandomDraws ELSE {NoDraw}
Now(probe) == IF Asked(probe, "bridge") THEN Clock ELSE {0}

ReserveV1 ==
  /\ pc = "idle"
  /\ \E apiKey \in CallerKeys, id \in EventIds, q \in QuantityInputs :
       LET quantity == defaultQuantity(q)
       IN \E lookup \in LookupAnswer(reserveV1(env, apiKey, id, quantity, NoLookup, NoBridge, NoIds).trace, id) :
            LET probe == reserveV1(env, apiKey, id, quantity, lookup, NoBridge, NoIds).trace
            IN \E bridge \in BridgeAnswer(env, probe), now \in Now(probe), seat \in SeatDraw(probe) :
                 \E reservation \in ReservationDraw(
                        reserveV1(env, apiKey, id, quantity, lookup, bridge, NoIds).res) :
                   LET ids == [now |-> now, seat |-> seat, reservation |-> reservation]
                   IN Serve("reserveV1", [apiKey |-> apiKey, id |-> id, quantity |-> q],
                            [lookup |-> lookup, bridge |-> bridge, ids |-> ids],
                            reserveV1(env, apiKey, id, quantity, lookup, bridge, ids))

ReserveV2 ==
  /\ pc = "idle"
  /\ \E apiKey \in CallerKeys, id \in EventIds, q \in QuantityInputs :
       LET quantity == defaultQuantity(q)
       IN \E lookup \in LookupAnswer(reserveV2(env, apiKey, id, quantity, NoLookup, NoBridge, NoIds).trace, id) :
            LET probe == reserveV2(env, apiKey, id, quantity, lookup, NoBridge, NoIds).trace
            IN \E bridge \in BridgeAnswer(env, probe), now \in Now(probe), seat \in SeatDraw(probe) :
                 \E reservation \in ReservationDraw(
                        reserveV2(env, apiKey, id, quantity, lookup, bridge, NoIds).res) :
                   LET ids == [now |-> now, seat |-> seat, reservation |-> reservation]
                   IN Serve("reserveV2", [apiKey |-> apiKey, id |-> id, quantity |-> q],
                            [lookup |-> lookup, bridge |-> bridge, ids |-> ids],
                            reserveV2(env, apiKey, id, quantity, lookup, bridge, ids))

ReserveGated ==
  /\ pc = "idle"
  /\ \E apiKey \in CallerKeys, id \in EventIds, q \in QuantityInputs :
       LET quantity == defaultQuantity(q)
       IN \E lookup \in LookupAnswer(reserveGated(env, apiKey, id, quantity, NoLookup, NoBridge, NoIds).trace, id) :
            LET probe == reserveGated(env, apiKey, id, quantity, lookup, NoBridge, NoIds).trace
            IN \E bridge \in BridgeAnswer(env, probe), now \in Now(probe), seat \in SeatDraw(probe) :
                 \E reservation \in ReservationDraw(
                        reserveGated(env, apiKey, id, quantity, lookup, bridge, NoIds).res) :
                   LET ids == [now |-> now, seat |-> seat, reservation |-> reservation]
                   IN Serve("reserveGated", [apiKey |-> apiKey, id |-> id, quantity |-> q],
                            [lookup |-> lookup, bridge |-> bridge, ids |-> ids],
                            reserveGated(env, apiKey, id, quantity, lookup, bridge, ids))

(***************************************************************************)
(* The payments routes, called by a client                                 *)
(***************************************************************************)
ShowItems == {[showId |-> i, quantity |-> 1, price |-> p] : i \in EventIds, p \in {51, 60}}
ClientBodies == [shows : SeqsUpTo(ShowItems, 1), userId : {"", "u1"}, totalAmount : {0, 51}]

StripeAnswer(e, probe) == IF Asked(probe, "stripe") THEN StripeAnswers(e) ELSE {NoStripe}

CreateCheckoutSession ==
  /\ pc = "idle"
  /\ \E body \in ClientBodies :
       \E stripe \in StripeAnswer(env, createCheckoutSession(env, body, NoStripe).trace) :
         LET h == createCheckoutSession(env, body, stripe)
         IN Serve("createCheckoutSession", [apiKey |-> "", body |-> body],
                  [stripe |-> stripe], Result(h.res, h.trace, <<>>))

RetrieveSession ==
  /\ pc = "idle"
  /\ \E stripe \in StripeAnswers(env) :
       LET h == retrieveSession(env, stripe)
       IN Serve("retrieveSession", [apiKey |-> ""], [stripe |-> stripe],
                Result(h.res, h.trace, <<>>))

StripeWebhook ==
  /\ pc = "idle"
  /\ \E sigValid \in BOOLEAN, type \in EventTypes :
       LET h == stripeWebhook(env, sigValid, type)
       IN Serve("stripeWebhook", [apiKey |-> "", sigValid |-> sigValid, type |-> type],
                NoAnswers, Result(h.res, h.trace, <<>>))

(***************************************************************************)
(* Specifications                                                          *)
(***************************************************************************)
\* the shows routes read the Stripe configuration only through the bridge
ShowsEnvs == {e \in Envs : e.STRIPE_SECRET_KEY # "" /\ e.STRIPE_WEBHOOK_SECRET # ""}

InitShows == Init /\ env \in ShowsEnvs

Next ==
  \/ ListV1
  \/ ListV2
  \/ ListGated
  \/ GetOneV1
  \/ GetOneV2
  \/ GetOneGated
  \/ ReserveV1
  \/ ReserveV2
  \/ ReserveGated
  \/ NextRequest

Spec == InitShows /\ [][Next]_vars

NextPayments ==
  \/ CreateCheckoutSession
  \/ RetrieveSession
  \/ StripeWebhook
  \/ NextRequest

SpecPayments == Init /\ [][NextPayments]_vars

(***************************************************************************)
(* Two reserve calls in flight on one router.  A handler runs from one     *)
(* await to the next without interruption: from the request to the lookup  *)
(* (axios.get), from the lookup's answer to the bridge request             *)
(* (axios.post), from the bridge's reply to the response; the calls        *)
(* interleave at the awaits.  Here pc, req, upstream, trace and res hold   *)
(* one value per call, and events is the listing as the catalog holds it,  *)
(* which only others than this server change.                              *)
(***************************************************************************)
InFlight == {1, 2}

ConcurrentEnv == [TICKET_API_KEY |-> "k1", SEATGEEK_CLIENT_ID |-> "cid",
                  SEATGEEK_CLIENT_SECRET |-> "csec", STRIPE_SECRET_KEY |-> "sk",
                  STRIPE_WEBHOOK_SECRET |-> "whsec"]

\* the listing of event 7 as the catalog may hold it
CatalogListings == {[id |-> 7, stats |-> Stats(Num(2), Num(51), Absent)],
                    [id |-> 7, stats |-> Stats(Num(0), Num(51), Absent)]}

ConcurrentQuantities == {Num(1), Num(2)}
ConcurrentReplies == {[servedBy |-> "elsewhere", stripe |-> NoStripe, reply |-> r] :
                        r \in {Reply(200, TRUE, "https://checkout.stripe.test/cs_test_1"),
                               Reply(500, FALSE, "")}}

NoAnswersYet == [lookup |-> NoLookup, bridge |-> NoBridge, ids |-> NoIds]

\* the entry a call validates against, were the router to keep a ledger of the
\* quantities of the calls waiting for their checkout and to deduct them
validatedAgainst_sharedLedger(c, lookup) ==
  LET held == {d \in InFlight \ {c} : pc[d] = "checkout"}
      taken == IF held = {} THEN 0
               ELSE defaultQuantity(req[CHOOSE d \in held : TRUE].quantity)
      event == lookup.event[1]
  IN [lookup EXCEPT !.event =
        <<[event EXCEPT !.stats = Stats(Num(listing_count(event)[1] - taken),
                                        lowest_price(event), average_price(event))]>>]

\* const event = response.data: the entry call c validates against is the
\* answer to its own lookup
validatedAgainst(c, lookup) == lookup

\* the handler of the deployed variant on the answers call c has so far
reserveOf(variant, c, r, a) ==
  LET lookup == IF a.lookup.status = 200 THEN validatedAgainst(c, a.lookup) ELSE a.lookup
  IN IF variant = "reserveV2"
     THEN reserveV2(env, r.apiKey, r.id, defaultQuantity(r.quantity), lookup, a.bridge, a.ids)
     ELSE reserveGated(env, r.apiKey, r.id, defaultQuantity(r.quantity), lookup, a.bridge, a.ids)

InitConcurrent ==
  /\ env = ConcurrentEnv
  /\ op \in {"reserveV2", "reserveGated"}
  /\ pc = [c \in InFlight |-> "idle"]
  /\ req = [c \in InFlight |-> NoRequest]
  /\ upstream = [c \in InFlight |-> NoAnswersYet]
  /\ trace = [c \in InFlight |-> <<>>]
  /\ events \in {<<l>> : l \in CatalogListings}
  /\ res = [c \in InFlight |-> NoResponse]

\* a call arrives: verifyApiKey and the credential test pass and the lookup
\* is sent
ConcurrentReceive ==
  \E c \in InFlight, q \in ConcurrentQuantities :
    /\ pc[c] = "idle"
    /\ LET request == [apiKey |-> env.TICKET_API_KEY, id |-> 7, quantity |-> q]
           r == reserveOf(op, c, request, NoAnswersYet)
       IN /\ Asked(r.trace, "catalog")
          /\ req' = [req EXCEPT ![c] = request]
          /\ pc' = [pc EXCEPT ![c] = "lookup"]
          /\ trace' = [trace EXCEPT ![c] = <<CatalogCall("event")>>]
    /\ UNCHANGED <<env, op, upstream, events, res>>

\* the lookup of a call is answered with the listing as it is now; the handler
\* validates and either answers or posts to the bridge
ConcurrentRefetch ==
  \E c \in InFlight :
    /\ pc[c] = "lookup"
    /\ LET a == [NoAnswersYet EXCEPT !.lookup = [status |-> 200, event |-> events]]
           r == reserveOf(op, c, req[c], a)
       IN /\ upstream' = [upstream EXCEPT ![c] = a]
          /\ IF Asked(r.trace, "bridge")
             THEN /\ pc' = [pc EXCEPT ![c] = "checkout"]
                  /\ UNCHANGED <<trace, res>>
             ELSE /\ pc' = [pc EXCEPT ![c] = "done"]
                  /\ trace' = [trace EXCEPT ![c] = r.trace]
                  /\ res' = [res EXCEPT ![c] = r.res]
    /\ UNCHANGED <<env, op, req, events>>

\* the bridge answers a call and the handler responds
ConcurrentCheckout ==
  \E c \in InFlight, bridge \in ConcurrentReplies, now \in Clock, seat \in RandomDraws :
    /\ pc[c] = "checkout"
    /\ \E reservation \in ReservationDraw(bridge.reply) :
         LET a == [upstream[c] EXCEPT !.bridge = bridge,
                                      !.ids = [now |-> now, seat |-> seat,
                                               reservation |-> reservation]]
             r == reserveOf(op, c, req[c], a)
         IN /\ upstream' = [upstream EXCEPT ![c] = a]
            /\ pc' = [pc EXCEPT ![c] = "done"]
            /\ trace' = [trace EXCEPT ![c] = r.trace]
            /\ res' = [res EXCEPT ![c] = r.res]
    /\ UNCHANGED <<env, op, req, events>>

\* the catalog's listing changes (tickets sold or listed elsewhere); no
\* handler of this server writes to the catalog
CatalogChanges ==
  /\ events' \in {<<l>> : l \in CatalogListings} \ {events}
  /\ UNCHANGED <<env, pc, op, req, upstream, trace, res>>

NextConcurrent ==
  \/ ConcurrentReceive
  \/ ConcurrentRefetch
  \/ ConcurrentCheckout
  \/ CatalogChanges

SpecConcurrent == InitConcurrent /\ [][NextConcurrent]_vars

(***************************************************************************)
(* The three endpoints of one variant on one catalog entry.  Here op is    *)
(* the variant, events the entry as the catalog holds it, and pc, trace    *)
(* and res hold one value per endpoint; every catalog query is answered    *)
(* with the entry.                                                         *)
(***************************************************************************)
Variants == {"first", "second", "part_000"}
Endpoints == {"list", "getOne", "reserve"}

\* the listing queries' answer: the entry alone
Listing(entry) == [kind |-> "ok", events |-> <<entry>>]

listOf(variant, e, apiKey, fetch_all, entry) ==
  IF variant = "first"
  THEN listV1(e, apiKey, "New York", fetch_all, Listing(entry), Listing(entry))
  ELSE IF variant = "second"
  THEN listV2(e, apiKey, fetch_all, <<Listing(entry)>>, Listing(entry))
  ELSE listGated(e, apiKey, "New York", fetch_all, Listing(entry), Listing(entry))

getOneOf(variant, e, apiKey, entry) ==
  LET lookup == [status |-> 200, event |-> <<entry>>]
  IN IF variant = "first" THEN getOneV1(e, apiKey, entry.id, lookup)
     ELSE IF variant = "second" THEN getOneV2(e, apiKey, entry.id, lookup)
     ELSE getOneGated(e, apiKey, entry.id, lookup)

reserveOne(variant, e, apiKey, q, entry, bridge, ids) ==
  LET lookup == [status |-> 200, event |-> <<entry>>]
      quantity == defaultQuantity(q)
  IN IF variant = "first" THEN reserveV1(e, apiKey, entry.id, quantity, lookup, bridge, ids)
     ELSE IF variant = "second" THEN reserveV2(e, apiKey, entry.id, quantity, lookup, bridge, ids)
     ELSE reserveGated(e, apiKey, entry.id, quantity, lookup, bridge, ids)

InitPolicy ==
  /\ env = ConcurrentEnv
  /\ op \in Variants
  /\ pc = [p \in Endpoints |-> "idle"]
  /\ req = NoRequest
  /\ upstream = NoAnswers
  /\ trace = [p \in Endpoints |-> <<>>]
  /\ events \in {<<entry>> : entry \in UNION {EntriesOf(id) : id \in EventIds}}
  /\ res = [p \in Endpoints |-> NoResponse]

\* p answered: r is the handler's result
Answered(p, r) ==
  /\ pc' = [pc EXCEPT ![p] = "done"]
  /\ trace' = [trace EXCEPT ![p] = r.trace]
  /\ res' = [res EXCEPT ![p] = r.res]
  /\ UNCHANGED <<env, op, req, upstream, events>>

PolicyList ==
  /\ pc["list"] = "idle"
  /\ \E fetch_all \in BOOLEAN :
       Answered("list", listOf(op, env, env.TICKET_API_KEY, fetch_all, events[1]))

PolicyGetOne ==
  /\ pc["getOne"] = "idle"
  /\ Answered("getOne", getOneOf(op, env, env.TICKET_API_KEY, events[1]))

\* reserve of one ticket: quantity 1 or none given
PolicyReserve ==
  /\ pc["reserve"] = "idle"
  /\ \E q \in {Absent, Num(1)}, bridge \in ConcurrentReplies, now \in Clock, seat \in RandomDraws :
       \E reservation \in ReservationDraw(bridge.reply) :
         Answered("reserve",
                  reserveOne(op, env, env.TICKET_API_KEY, q, events[1], bridge,
                             [now |-> now, seat |-> seat, reservation |-> reservation]))

NextPolicy ==
  \/ PolicyList
  \/ PolicyGetOne
  \/ PolicyReserve

SpecPolicy == InitPolicy /\ [][NextPolicy]_vars

(***************************************************************************)
(* The while loop of the paginated fetchAllEvents (shows.ts 380-418), one  *)
(* step per awaited page request.  Here op is "fetchAllEvents", req holds  *)
(* the loop variable page, upstream the answers received so far, trace the *)
(* requests and log events, events is allEvents, and pc is "while" until   *)
(* the function returns.                                                   *)
(***************************************************************************)
PageRequest(page) == [to |-> "catalog", what |-> "page", page |-> page]

\* the loop condition without its bound
loopCondition_noPageCap(page) == TRUE

\* while (page <= maxPages)
loopCondition(page) == page <= maxPages

InitPaging ==
  /\ env = ConcurrentEnv
  /\ op = "fetchAllEvents"
  /\ pc = "while"
  /\ req = [page |-> 1]
  /\ upstream = <<>>
  /\ trace = <<>>
  /\ events = <<>>
  /\ res = NoResponse

\* the request of the page is answered: its events are pushed, and the loop
\* breaks on a short page or goes on with page + 1
PageReceived ==
  /\ pc = "while"
  /\ loopCondition(req.page)
  /\ \E response \in PageResponses \ Failures :
       /\ upstream' = Append(upstream, response)
       /\ trace' = Append(trace, PageRequest(req.page))
       /\ events' = events \o response.events
       /\ IF Len(response.events) < perPage
          THEN pc' = "done" /\ UNCHANGED req
          ELSE pc' = "while" /\ req' = [req EXCEPT !.page = req.page + 1]
  /\ UNCHANGED <<env, op, res>>

\* the request of the page fails or times out: the catch block logs and breaks
PageFailed ==
  /\ pc = "while"
  /\ loopCondition(req.page)
  /\ \E response \in Failures :
       /\ upstream' = Append(upstream, response)
       /\ trace' = trace \o <<PageRequest(req.page),
                              Log("error", "Error fetching SeatGeek events")>>
  /\ pc' = "done"
  /\ UNCHANGED <<env, op, req, events, res>>

\* the loop condition fails: return allEvents
LoopExit ==
  /\ pc = "while"
  /\ ~loopCondition(req.page)
  /\ pc' = "done"
  /\ UNCHANGED <<env, op, req, upstream, trace, events, res>>

NextPaging ==
  \/ PageReceived
  \/ PageFailed
  \/ LoopExit

\* every awaited request settles (timeout: 10000) and so does the 100 ms pause
SpecPaging == InitPaging /\ [][NextPaging]_vars /\ WF_vars(NextPaging)

(***************************************************************************)
(* Properties                                                              *)
(***************************************************************************)
TwoCallLists == {"listV1", "listGated"}
Lists == {"listV1", "listV2", "listGated"}
GetOnes == {"getOneV1", "getOneV2", "getOneGated"}
Reserves == {"reserveV1", "reserveV2", "reserveGated"}

\* an entry the merge of the handler o may insert
Eligible(o, ev) == o = "listV1" \/ hasValidPricing(ev)
EligibleIds(o, list) == {list[i].id : i \in {j \in DOMAIN list : Eligible(o, list[j])}}

\* the first eligible entry of each id, in the order of list
RECURSIVE FirstOccurrences(_, _, _)
FirstOccurrences(o, list, i) ==
  IF i > Len(list) THEN <<>>
  ELSE (IF Eligible(o, list[i])
           /\ \A j \in 1..(i - 1) : ~(Eligible(o, list[j]) /\ list[j].id = list[i].id)
        THEN <<list[i]>> ELSE <<>>) \o FirstOccurrences(o, list, i + 1)

Aggregated == pc = "done" /\ op \in TwoCallLists /\ req.fetch_all /\ res.status = 200

\* C1: the two-call aggregation returns no id twice, as many entries as there
\* are distinct eligible ids in the two lists, and for an id eligible in both
\* lists an occurrence of the city-scoped list.
C1_Deduplication ==
  Aggregated =>
    LET city == upstream.city.events
        general == upstream.general.events
    IN /\ \A i, j \in DOMAIN events : i # j => events[i].id # events[j].id
       /\ Len(events) = Cardinality(EligibleIds(op, city) \cup EligibleIds(op, general))
       /\ \A x \in EligibleIds(op, city) \cap EligibleIds(op, general) :
            \E k \in DOMAIN events, i \in DOMAIN city :
              /\ events[k].id = x
              /\ Eligible(op, city[i])
              /\ events[k] = city[i]

\* an id eligible in both lists with different entries, and a duplicate dropped
C1_Witness ==
  /\ Aggregated
  /\ op = "listGated"
  /\ \E i \in DOMAIN upstream.city.events, j \in DOMAIN upstream.general.events :
       /\ upstream.city.events[i].id = upstream.general.events[j].id
       /\ hasValidPricing(upstream.city.events[i])
       /\ hasValidPricing(upstream.general.events[j])
       /\ upstream.city.events[i] # upstream.general.events[j]
  /\ Len(events) < Len(upstream.city.events) + Len(upstream.general.events)

GeneralFailed ==
  /\ pc = "done" /\ op \in TwoCallLists /\ req.fetch_all
  /\ upstream.city.kind = "ok"
  /\ upstream.general.kind \in {"error", "timeout"}

\* C2: when the general query fails and the city-scoped query succeeds, the
\* list operation answers success with exactly the city-scoped entries, gated
\* and deduplicated, in their mapped form.
C2_PartialFailure ==
  GeneralFailed =>
    LET kept == FirstOccurrences(op, upstream.city.events, 1)
    IN /\ res.status = 200
       /\ res.success
       /\ events = kept
       /\ res.total = Len(kept)
       /\ res.shows = [i \in 1..Len(kept) |->
                         IF op = "listV1" THEN normalizeV1(kept[i]) ELSE normalizeGated(kept[i])]

\* the general query timed out and two city-scoped entries came back
C2_Witness ==
  /\ GeneralFailed
  /\ upstream.general.kind = "timeout"
  /\ Len(upstream.city.events) = 2
  /\ Len(res.shows) = 2

\* the quantity the reserve handler works with
RequestedQuantity == defaultQuantity(req.quantity)

Refetched == pc = "done" /\ op \in Reserves /\ upstream.lookup.status = 200
RefetchedEntry == upstream.lookup.event[1]

\* the inventory of the refetched entry (none when the field is absent)
ListingCount == Or(listing_count(RefetchedEntry), Num(0))[1]
\* the unit price the entry's stats resolve to (0: none)
ResolvedPrice == Or(Or(lowest_price(RefetchedEntry), average_price(RefetchedEntry)), Num(0))[1]

BridgeCalls == SelectSeq(trace, LAMBDA c : c.to = "bridge")

\* C3 (spec 8; refuted by the request shape the bridge handler requires): with a successful lookup, 0 < quantity <= listing count, a
\* positive price and a payment processor that accepts the session, reserve
\* answers success with reservationId, seatId, checkoutUrl and sessionId when
\* the handler of payments.ts serves the bridge request.
C3_ReserveSucceeds ==
  (/\ Refetched
   /\ 0 < RequestedQuantity /\ RequestedQuantity <= ListingCount
   /\ ResolvedPrice > 0
   /\ upstream.bridge.servedBy = "payments.ts"
   /\ upstream.bridge.stripe.kind = "session" /\ upstream.bridge.stripe.url # "")
  => /\ res.status = 200
     /\ res.success
     /\ res.checkoutUrl # ""

\* C4: in the strict and the gated reserve, a quantity above the listing count
\* of the refetched entry is answered 400 and nothing is sent to the bridge;
\* no bridge request carries a quantity above the listing count.
C4_QuantityAboveInventory ==
  (Refetched /\ op \in {"reserveV2", "reserveGated"}) =>
    /\ RequestedQuantity > ListingCount =>
         res.status = 400 /\ ~res.success /\ BridgeCalls = <<>>
    /\ \A i \in DOMAIN BridgeCalls : BridgeCalls[i].body.quantity <= ListingCount

\* 3 tickets asked of a listing of 2 with a price: refused for the quantity
C4_Witness ==
  /\ Refetched
  /\ op = "reserveV2"
  /\ ListingCount = 2
  /\ RequestedQuantity = 3
  /\ ResolvedPrice > 0
  /\ res.status = 400
  /\ res.error = "Insufficient tickets"

\* C5 (spec 4.3 step 3; refuted, no handler tests quantity > 0): a quantity of 0 or below is answered with a validation
\* error and nothing is sent to the bridge, in every reserve variant.
C5_NonPositiveQuantity ==
  (Refetched /\ RequestedQuantity <= 0) =>
    res.status = 400 /\ BridgeCalls = <<>>

\* C6 (spec 7; refuted, the catch block maps any axios 404): reserve answers 404 'Event not found' exactly when the
\* single-entity lookup answered not-found.
C6_NotFoundOnlyFromLookup ==
  (pc = "done" /\ op \in Reserves) =>
    ((res.status = 404 /\ res.error = "Event not found") <=> upstream.lookup.status = 404)

ShowsRoutes == Lists \cup GetOnes \cup Reserves

CatalogCredential ==
  /\ env.SEATGEEK_CLIENT_ID # ""
  /\ op \in {"listV2", "getOneV2", "reserveV2"} => env.SEATGEEK_CLIENT_SECRET # ""

\* C7: list, get-one and reserve send nothing to the catalog or the bridge
\* unless the caller's key equals the configured TICKET_API_KEY and the catalog
\* credential is configured; an unset TICKET_API_KEY is answered 500
\* Configuration Error whatever the caller's key, another or no key 401.
C7_FailFast ==
  (pc = "done" /\ op \in ShowsRoutes) =>
    /\ (Asked(trace, "catalog") \/ Asked(trace, "bridge")) =>
         /\ env.TICKET_API_KEY # ""
         /\ req.apiKey = env.TICKET_API_KEY
         /\ CatalogCredential
    /\ env.TICKET_API_KEY = "" =>
         res.status = 500 /\ res.error = "Configuration Error"
    /\ (env.TICKET_API_KEY # "" /\ req.apiKey # env.TICKET_API_KEY) =>
         res.status = 401 /\ res.error = "Unauthorized"

\* a caller without a key is turned away by a configured server
C7_Witness ==
  /\ pc = "done"
  /\ op = "reserveGated"
  /\ env.TICKET_API_KEY # ""
  /\ req.apiKey = ""
  /\ res.status = 401
  /\ trace = <<>>

\* C8 (spec 7; refuted, payments.ts never tests the key): without the payment-processor credential, session
\* creation (of a well-formed request) and session retrieval fail with a
\* Configuration error before the payment processor is called.
C8_BridgeConfiguration ==
  (/\ pc = "done"
   /\ env.STRIPE_SECRET_KEY = ""
   /\ \/ op = "retrieveSession"
      \/ op = "createCheckoutSession" /\ req.body.shows # <<>>
           /\ req.body.userId # "" /\ req.body.totalAmount # 0)
  => res.error = "Configuration Error" /\ ~Asked(trace, "stripe")

IsPaymentEvent(c) ==
  c.to = "log" /\ c.message \in {"Payment completed", "Payment expired"}
IsVerification(c) == c.to = "stripe" /\ c.api = "webhooks.constructEvent"

\* C9: a webhook whose signature does not verify is rejected and emits neither
\* 'Payment completed' nor 'Payment expired'; such an event is emitted only
\* after the signature was verified; without a webhook secret the request is
\* rejected and no verification is attempted.
C9_WebhookVerification ==
  (pc = "done" /\ op = "stripeWebhook") =>
    /\ (env.STRIPE_WEBHOOK_SECRET # "" /\ ~req.sigValid) =>
         /\ res.status = 400 /\ ~res.success
         /\ \A j \in DOMAIN trace : ~IsPaymentEvent(trace[j])
    /\ \A j \in DOMAIN trace :
         IsPaymentEvent(trace[j]) =>
           req.sigValid /\ \E i \in 1..(j - 1) : IsVerification(trace[i])
    /\ env.STRIPE_WEBHOOK_SECRET = "" =>
         /\ res.status = 500 /\ ~res.success
         /\ \A j \in DOMAIN trace : ~IsVerification(trace[j]) /\ ~IsPaymentEvent(trace[j])

\* a completed-session event with a bad signature was verified and rejected
C9_Witness ==
  /\ pc = "done"
  /\ op = "stripeWebhook"
  /\ env.STRIPE_WEBHOOK_SECRET # ""
  /\ ~req.sigValid
  /\ req.type = "checkout.session.completed"
  /\ \E i \in DOMAIN trace : IsVerification(trace[i])
  /\ res.status = 400

\* the shows of a successful list or get-one response
ReturnedShows ==
  IF op \in Lists THEN {res.shows[i] : i \in DOMAIN res.shows} ELSE {res.show}

\* C10 (spec 8; refuted by negative stats values): every Show the list and get-one mappings produce has
\* price >= 0, availableSeats >= 0 and a non-empty id.
C10_ShowInvariant ==
  (pc = "done" /\ op \in Lists \cup GetOnes /\ res.status = 200) =>
    \A show \in ReturnedShows :
      show.price >= 0 /\ show.availableSeats >= 0 /\ show.id # <<>>

\* a positive lowest or average price among the entry's stats
HasPositivePrice(event) == Positive(lowest_price(event)) \/ Positive(average_price(event))
\* a positive listing count among the entry's stats
HasPositiveCount(event) == Positive(listing_count(event))

\* C11 (spec 4.3 step 3; refuted in part_000 by a negative lowest_price next
\* to a positive average_price): in the strict and the gated reserve, an entry
\* without a positive price is answered 400 and nothing is sent to the bridge,
\* and no bridge request carries a unit price of 0 or below.
C11_PriceUnavailable ==
  (Refetched /\ op \in {"reserveV2", "reserveGated"}) =>
    /\ ~HasPositivePrice(RefetchedEntry) =>
         res.status = 400 /\ ~res.success /\ BridgeCalls = <<>>
    /\ \A i \in DOMAIN BridgeCalls : BridgeCalls[i].body.price > 0

\* what the bridge answered the request reserve sent it
BridgeReply == postCheckout(env, BridgeCalls[1].body, upstream.bridge).reply

\* the bridge answered success together with a checkout URL
CheckoutSucceeded ==
  /\ BridgeCalls # <<>>
  /\ BridgeReply.status = 200
  /\ BridgeReply.success
  /\ BridgeReply.checkoutUrl # ""

\* C12: reserve answers success only when the bridge answered success with a
\* checkout URL, and then passes that URL on; after an error, no reply,
\* success = false or a missing URL, reserve answers a failure that carries
\* no reservationId.
C12_CheckoutFailureFatal ==
  (pc = "done" /\ op \in Reserves) =>
    /\ res.success =>
         /\ CheckoutSucceeded
         /\ res.checkoutUrl = BridgeReply.checkoutUrl
         /\ res.checkoutUrl # ""
    /\ (BridgeCalls # <<>> /\ ~CheckoutSucceeded) =>
         /\ ~res.success
         /\ res.status >= 400
         /\ "reservationId" \notin DOMAIN res

\* the bridge answered 200 with success and no URL: the reservation failed
C12_Witness ==
  /\ pc = "done"
  /\ op = "reserveV1"
  /\ BridgeCalls # <<>>
  /\ upstream.bridge.servedBy = "elsewhere"
  /\ upstream.bridge.reply.status = 200
  /\ upstream.bridge.reply.success
  /\ upstream.bridge.reply.checkoutUrl = ""
  /\ res.status = 500
  /\ ~res.success

\* the strict list handler sent a listing query that failed
StrictListingFailed ==
  /\ pc = "done"
  /\ op = "listV2"
  /\ \/ upstream.single.kind \in {"error", "timeout"}
     \/ \E i \in DOMAIN upstream.pages : upstream.pages[i].kind \in {"error", "timeout"}

\* the entries of the pages answered before the first failed one
RECURSIVE FetchedBefore(_, _)
FetchedBefore(pages, i) ==
  IF i > Len(pages) \/ pages[i].kind # "ok" THEN <<>>
  ELSE pages[i].events \o FetchedBefore(pages, i + 1)

\* C13 (spec 7; refuted for fetch_all other than 'true', where the one query
\* is not caught apart): a failed listing query of the strict list handler is
\* answered success with the entries fetched before the failure.
C13_StrictListNeverPropagates ==
  StrictListingFailed =>
    /\ res.status = 200
    /\ res.success
    /\ events = FetchedBefore(upstream.pages, 1)
    /\ res.total = Len(events)

\* the listing count of the snapshot call c refetched
SnapshotCount(c) == Or(listing_count(upstream[c].lookup.event[1]), Num(0))[1]

\* C14: the outcome of a reserve call among concurrent ones is decided by the
\* snapshot it refetched itself and by the bridge's reply to it alone: it
\* posts to the bridge exactly when its own snapshot holds its quantity, and
\* succeeds exactly when it did and its checkout succeeded, whatever the other call asked, holds or was answered and
\* whatever the catalog holds by now; and a step of one call changes nothing
\* of the other call.
C14_IndependentSnapshots ==
  /\ [](\A c \in InFlight :
          (pc[c] = "done" /\ upstream[c].lookup.status = 200) =>
            /\ Asked(trace[c], "bridge") <=>
                 SnapshotCount(c) >= defaultQuantity(req[c].quantity)
            /\ res[c].success <=>
               /\ SnapshotCount(c) >= defaultQuantity(req[c].quantity)
               /\ upstream[c].bridge.reply.status = 200
               /\ upstream[c].bridge.reply.success
               /\ upstream[c].bridge.reply.checkoutUrl # "")
  /\ [][\A c \in InFlight :
          pc'[c] # pc[c] =>
            \A d \in InFlight \ {c} :
              /\ pc'[d] = pc[d] /\ req'[d] = req[d] /\ upstream'[d] = upstream[d]
              /\ trace'[d] = trace[d] /\ res'[d] = res[d]]_vars

\* both calls took 2 tickets of a listing of 2 and both succeeded
C14_Witness ==
  /\ \A c \in InFlight :
       /\ pc[c] = "done"
       /\ res[c].success
       /\ SnapshotCount(c) = 2
       /\ res[c].quantity = 2
  /\ res[1].quantity + res[2].quantity > SnapshotCount(1)

\* reserve answered success
Reserved == pc = "done" /\ op \in Reserves /\ res.status = 200 /\ res.success

\* C15 (spec 4.3 step 6; refuted in the first variant and in part_000, which
\* round the product instead of the unit price): on a successful reserve,
\* estimatedPrice is the quantity times the unit price sent to the bridge,
\* that is round(unit price) x quantity (stated here of the positive
\* quantities alone).
C15_TotalPrice ==
  (Reserved /\ RequestedQuantity > 0) =>
    /\ res.estimatedPrice = BridgeCalls[1].body.price * RequestedQuantity
    /\ res.estimatedPrice = MathRound(BridgeCalls[1].body.price) * RequestedQuantity

\* the retained entries that are not among those retained of the city-scoped
\* list
RECURSIVE RetainedGeneral(_, _, _, _)
RetainedGeneral(o, general, seen, i) ==
  IF i > Len(general) THEN <<>>
  ELSE IF Eligible(o, general[i]) /\ general[i].id \notin seen
  THEN <<general[i]>> \o RetainedGeneral(o, general, seen \cup {general[i].id}, i + 1)
  ELSE RetainedGeneral(o, general, seen, i + 1)

\* positions of the catalog queries in the trace
QueryPosition(what) ==
  CHOOSE i \in DOMAIN trace : trace[i].to = "catalog" /\ trace[i].what = what

\* C16: the two-call aggregation returns the retained city-scoped entries in
\* the order the catalog returned them, followed by the retained general
\* entries in the order the catalog returned them; the general query is sent
\* after the city-scoped query and after the handling of its failure.
C16_OutputOrder ==
  (pc = "done" /\ op \in TwoCallLists /\ req.fetch_all /\ Asked(trace, "catalog")) =>
    LET city == upstream.city.events
        general == upstream.general.events
        keptCity == FirstOccurrences(op, city, 1)
        cityIds == {keptCity[i].id : i \in DOMAIN keptCity}
    IN /\ events = keptCity \o RetainedGeneral(op, general, cityIds, 1)
       /\ res.status = 200
       /\ res.shows = [i \in DOMAIN events |->
                         IF op = "listV1" THEN normalizeV1(events[i]) ELSE normalizeGated(events[i])]
       /\ AskedCatalog(trace, "city") =>
            /\ QueryPosition("city") < QueryPosition("general")
            /\ \A i \in DOMAIN trace :
                 (trace[i].to = "log" /\ trace[i].message = "API CALL 1 failed")
                   => i < QueryPosition("general")

\* an entry of each query retained: the city-scoped one comes first
C16_Witness ==
  /\ pc = "done"
  /\ op = "listGated"
  /\ req.fetch_all
  /\ Len(upstream.city.events) = 2
  /\ Len(upstream.general.events) = 2
  /\ Len(events) = 2
  /\ events[1] = upstream.city.events[2]
  /\ events[2] = upstream.general.events[2]
  /\ events[1].id = 42
  /\ events[2].id = 7

\* the entries the catalog returned to the list handler
QueriedEntries ==
  {upstream.city.events[i] : i \in DOMAIN upstream.city.events}
  \cup {upstream.general.events[i] : i \in DOMAIN upstream.general.events}

GatedListed == pc = "done" /\ op = "listGated" /\ res.status = 200
GatedLookedUp == pc = "done" /\ op = "getOneGated" /\ upstream.lookup.status = 200

\* C17 (as worded; refuted by an entry with a price and a listing count of
\* 0): the gate of part_000 excludes an entry exactly when it has neither a
\* positive price nor a positive listing count, and acts on the raw entries.
C17_GateLacksBoth ==
  /\ GatedListed =>
       /\ \A k \in DOMAIN events :
            HasPositivePrice(events[k]) \/ HasPositiveCount(events[k])
       /\ \A ev \in QueriedEntries :
            (HasPositivePrice(ev) \/ HasPositiveCount(ev)) =>
              \E k \in DOMAIN events : events[k].id = ev.id
       /\ res.shows = [k \in DOMAIN events |-> normalizeGated(events[k])]
  /\ GatedLookedUp =>
       (res.status = 200 <=>
          (HasPositivePrice(RefetchedEntry) \/ HasPositiveCount(RefetchedEntry)))

\* C17 (amended): the gate of part_000 excludes an entry exactly when it has
\* no positive price (lowest or average) or no positive listing count, so it
\* keeps the entries that have both; it acts on the raw entries, and the
\* shows are the normalized forms of the entries it kept.
C17_GateRequiresBoth ==
  /\ GatedListed =>
       /\ \A k \in DOMAIN events :
            HasPositivePrice(events[k]) /\ HasPositiveCount(events[k])
       /\ \A ev \in QueriedEntries :
            (HasPositivePrice(ev) /\ HasPositiveCount(ev)) =>
              \E k \in DOMAIN events : events[k].id = ev.id
       /\ res.shows = [k \in DOMAIN events |-> normalizeGated(events[k])]
  /\ GatedLookedUp =>
       (res.status = 200 <=>
          (HasPositivePrice(RefetchedEntry) /\ HasPositiveCount(RefetchedEntry)))

\* a list of an entry with a price and no listings and of an entry with both:
\* the first is left out, the second returned
C17_Witness ==
  /\ GatedListed
  /\ ~req.fetch_all
  /\ Len(upstream.city.events) = 2
  /\ HasPositivePrice(upstream.city.events[1])
  /\ ~HasPositiveCount(upstream.city.events[1])
  /\ events = <<upstream.city.events[2]>>
  /\ Len(res.shows) = 1

\* list[i] is rejected by the gate and a later entry of list, or an entry of
\* later, has the same id and passes it
RejectedThenValid(list, later) ==
  \E i \in DOMAIN list :
    /\ ~(HasPositivePrice(list[i]) /\ HasPositiveCount(list[i]))
    /\ \/ \E j \in DOMAIN list :
            j > i /\ list[j].id = list[i].id
            /\ HasPositivePrice(list[j]) /\ HasPositiveCount(list[j])
       \/ \E j \in DOMAIN later :
            later[j].id = list[i].id
            /\ HasPositivePrice(later[j]) /\ HasPositiveCount(later[j])

\* the first entry with the id of list[i] that passes the gate, looked for in
\* list and then in later
FirstValid(id, list, later) ==
  LET both == list \o later
      valid == {j \in DOMAIN both : both[j].id = id /\ HasPositivePrice(both[j])
                                    /\ HasPositiveCount(both[j])}
  IN both[CHOOSE j \in valid : \A k \in valid : j <= k]

\* C18: in the aggregation of part_000 an entry the gate rejects takes no
\* place in the set of seen ids: when an entry with the same id that passes
\* the gate comes later, in the same list or in the general list, the result
\* holds the first such entry.
C18_RejectedTakesNoSlot ==
  (pc = "done" /\ op = "listGated" /\ req.fetch_all /\ res.status = 200) =>
    LET city == upstream.city.events
        general == upstream.general.events
    IN \A i \in DOMAIN (city \o general) :
         LET ev == (city \o general)[i]
         IN (/\ ~(HasPositivePrice(ev) /\ HasPositiveCount(ev))
             /\ \E j \in DOMAIN (city \o general) :
                  /\ j > i
                  /\ (city \o general)[j].id = ev.id
                  /\ HasPositivePrice((city \o general)[j])
                  /\ HasPositiveCount((city \o general)[j]))
            => \E k \in DOMAIN events : events[k] = FirstValid(ev.id, city, general)

\* the city-scoped list held a rejected entry of id 7 and the general list a
\* valid one: the valid one is in the result
C18_Witness ==
  /\ pc = "done"
  /\ op = "listGated"
  /\ req.fetch_all
  /\ upstream.city.kind = "ok"
  /\ upstream.general.kind = "ok"
  /\ RejectedThenValid(upstream.city.events, upstream.general.events)
  /\ \E i \in DOMAIN upstream.city.events, j \in DOMAIN upstream.general.events :
       /\ upstream.city.events[i].id = 7
       /\ ~HasPositiveCount(upstream.city.events[i])
       /\ upstream.general.events[j].id = 7
       /\ \E k \in DOMAIN events : events[k] = upstream.general.events[j]
  /\ \A i \in DOMAIN upstream.city.events :
       upstream.city.events[i].id = 7 => ~HasPositiveCount(upstream.city.events[i])

\* the entry is in the list response with isAvailable = true
ListedAvailable ==
  /\ res["list"].status = 200
  /\ \E k \in DOMAIN res["list"].shows :
       /\ res["list"].shows[k].id = toString(events[1].id)
       /\ res["list"].shows[k].isAvailable

\* get-one returns the entry with isAvailable = true
GetOneAvailable == res["getOne"].status = 200 /\ res["getOne"].show.isAvailable

\* reserve of one ticket passed validation and posted to the bridge
ReservePasses == Asked(trace["reserve"], "bridge")

\* C19: within each variant, for every catalog entry, list returns the entry
\* with isAvailable = true exactly when get-one does, and exactly when reserve
\* of one ticket passes validation and posts to the bridge.
C19_UniformAvailability ==
  /\ (pc["list"] = "done" /\ pc["getOne"] = "done") => (ListedAvailable <=> GetOneAvailable)
  /\ (pc["getOne"] = "done" /\ pc["reserve"] = "done") => (GetOneAvailable <=> ReservePasses)
  /\ (pc["list"] = "done" /\ pc["reserve"] = "done") => (ListedAvailable <=> ReservePasses)

\* second variant, an entry with 2 listings and a price of 0: listed and
\* returned as unavailable, and refused by reserve for its price
C19_Witness ==
  /\ op = "second"
  /\ \A p \in Endpoints : pc[p] = "done"
  /\ listing_count(events[1]) = Num(2)
  /\ res["list"].status = 200
  /\ Len(res["list"].shows) > 0
  /\ ~ListedAvailable
  /\ res["getOne"].status = 200
  /\ ~GetOneAvailable
  /\ res["reserve"].status = 400
  /\ res["reserve"].error = "Invalid price"

\* the symbols toString(36) writes
Alphanumeric == {"0", "1", "2", "3", "4", "5", "6", "7", "8", "9",
                 "a", "b", "c", "d", "e", "f", "g", "h", "i", "j", "k", "l", "m",
                 "n", "o", "p", "q", "r", "s", "t", "u", "v", "w", "x", "y", "z"}

\* a random suffix of at least 9 alphanumeric symbols
LongSuffix(suffix) ==
  /\ Len(suffix) >= 9
  /\ \A i \in DOMAIN suffix : suffix[i] \in Alphanumeric

\* C20 (spec 4.3 step 4; refuted by a Math.random() whose base-36 form is
\* short, such as 0.5): every seat identity sent to the bridge and every
\* reservation identity returned holds the timestamp and a random suffix of
\* at least 9 alphanumeric symbols.
C20_IdentitySuffix ==
  (pc = "done" /\ op \in Reserves) =>
    /\ \A i \in DOMAIN BridgeCalls :
         /\ BridgeCalls[i].body.seatId[3] = upstream.ids.now
         /\ LongSuffix(BridgeCalls[i].body.seatId[4])
    /\ res.success =>
         /\ res.reservationId[2] = upstream.ids.now
         /\ LongSuffix(res.reservationId[3])

\* the page requests sent so far, in the order sent
PageRequests == SelectSeq(trace, LAMBDA c : c.to = "catalog")

\* the answer stops the loop: a failure or a page of fewer than perPage entries
StopsFetching(response) == response.kind # "ok" \/ Len(response.events) < perPage

\* C21: the paginated fetchAllEvents returns after at most maxPages page
\* requests (50 in the code): the pages are requested in the order 1, 2, ...,
\* each once; fetching goes on only after full pages and stops at the first
\* page of fewer than perPage entries (100 in the code), at the first failed
\* request or at the bound; allEvents is the concatenation, in page order, of
\* the pages received.
C21_PaginationTerminates ==
  /\ [](/\ Len(PageRequests) <= maxPages
        /\ \A i \in DOMAIN PageRequests : PageRequests[i].page = i
        /\ Len(upstream) = Len(PageRequests)
        /\ \A i \in 1..(Len(upstream) - 1) : ~StopsFetching(upstream[i])
        /\ pc = "while" => (\A i \in DOMAIN upstream : ~StopsFetching(upstream[i]))
        /\ pc = "done" =>
             /\ Len(upstream) >= 1
             /\ Len(upstream) = maxPages \/ StopsFetching(upstream[Len(upstream)])
        /\ events = FetchedBefore(upstream, 1))
  /\ <>(pc = "done")

\* every page came back full: the loop ended at its bound
C21_Witness ==
  /\ op = "fetchAllEvents"
  /\ pc = "done"
  /\ Len(PageRequests) = maxPages
  /\ \A i \in DOMAIN upstream : ~StopsFetching(upstream[i])
  /\ Len(events) = maxPages * perPage

====
